---- MODULE Spec2Model ----
(***************************************************************************)
(* Model of the buildpack packager (src/packager/packager.go): the         *)
(* dependency fetcher (downloadDependency, downloadFromURI, checkSha256),  *)
(* the directory stager (copyDirectory) and the pipeline (Package).        *)
(***************************************************************************)
EXTENDS Integers, Sequences, FiniteSets, TLC

VARIABLES
    cache,      \* cacheDir: cache path (File.Name) -> bytes, or Absent
    fdep,       \* SpecFetch: the dependency every call is made with
    calls,      \* SpecFetch: one record per downloadDependency call, in order
    srcTree,    \* SpecCopy: srcDir, relative path -> node
    destTree,   \* SpecCopy: destDir, relative path -> node
    todo,       \* SpecCopy: the entries filepath.Walk has still to visit, in order
    cpc,        \* SpecCopy: position of copyDirectory
    cerr,       \* SpecCopy: the error copyDirectory returns
    ppc,        \* Spec: position of Package
    stack,      \* Spec: Package's stack argument
    cached,     \* Spec: Package's cached argument
    bpManifest, \* Spec: manifest.yml of bpDir
    cache0,     \* Spec: the cache directory when Package was called
    staging,    \* Spec: the staging directory (dir)
    manifest,   \* Spec: the typed manifest of line 165
    m,          \* Spec: the raw document of line 186
    deps,       \* Spec: m["dependencies"] as []interface{}
    idx,        \* Spec: index of the loop of line 199
    dependenciesForStack,   \* Spec: line 198
    files,      \* Spec: the file list of line 180
    archive,    \* Spec: the zip file in bpDir
    zipErr,     \* Spec: what ZipFiles returned
    perr,       \* Spec: the error Package returned
    steps,      \* Spec: the steps started so far, in order
    failed,     \* Spec: the step that failed, or "none"
    fetched,    \* Spec: the URIs downloadDependency was called with, in order
    hop,        \* SpecHandles: the operation that was called
    hin,        \* SpecHandles: its input and what the environment does to it
    hpc,        \* SpecHandles: its position
    hidx,       \* SpecHandles: index of the loop of ZipFiles
    hopen,      \* SpecHandles: the file handles and response bodies now open
    hdefer,     \* SpecHandles: the handles of the pending defer ...Close()
    herr,       \* SpecHandles: the error the operation returns
    env,        \* SpecEnv: the process environment's CF_STACK ("" when unset)
    vdoc,       \* SpecEnv: manifest.yml of the runs' bpDir
    vstk,       \* SpecEnv: run -> the stack argument of its validateStack
    vpc,        \* SpecEnv: run -> position of its validateStack
    vk,         \* SpecEnv: run -> index of the loop of line 109
    vseen,      \* SpecEnv: run -> the CF_STACK values its DefaultVersion calls read
    verr,       \* SpecEnv: run -> the error its validateStack returns
    rfile,      \* SpecRace: the file at the dependency's cache path
    rpc,        \* SpecRace: run -> position of its fetch
    rerr,       \* SpecRace: run -> the error its downloadDependency returned
    rbuf,       \* SpecRace: run -> what its open file has read so far
    rbytes,     \* SpecRace: run -> the bytes its archive read at the cache path
    ezip        \* SpecExtension: the zip the external packager left in dir

fetchVars == <<fdep, calls>>
copyVars == <<srcTree, destTree, todo, cpc, cerr>>
pkgIn == <<stack, cached, bpManifest, cache0>>
pkgLoc == <<manifest, m, deps, idx, dependenciesForStack, files>>
pkgVars == <<ppc, pkgIn, staging, pkgLoc, archive, zipErr, perr, steps, failed, fetched>>
baseVars == <<cache, fetchVars, copyVars, pkgVars>>
hVars == <<hop, hin, hpc, hidx, hopen, hdefer, herr>>
envVars == <<env, vdoc, vstk, vpc, vk, vseen, verr>>
raceVars == <<rfile, rpc, rerr, rbuf, rbytes>>
extVars == <<ezip>>
auxVars == <<hVars, envVars, raceVars, extVars>>
notHVars == <<baseVars, envVars, raceVars, extVars>>
notEnvVars == <<baseVars, hVars, raceVars, extVars>>
notRaceVars == <<baseVars, hVars, envVars, extVars>>
vars == <<baseVars, auxVars>>

----------------------------------------------------------------------------
(* Bounds *)

\* number of sequential downloadDependency calls in SpecFetch
MaxCalls == 3

\* depth of the source trees of SpecCopy
MaxDepth == 2

\* number of entries of the "dependencies" sequence of a manifest
MaxDeps == 2

\* length of the file lists ZipFiles is called with in SpecHandles
MaxFiles == 2

----------------------------------------------------------------------------
(* Bytes, digests, hex strings *)

Absent == "absent"          \* no file at the path
Empty == "empty"            \* a file of zero bytes (os.Create truncates)
Partial == "partial"        \* a prefix left by an io.Copy that failed mid-stream
Contents == {"c1", "c2", "c3", "bad", Partial, Empty}

NoErr == "nil"

\* File{Name, Path}; a Path is the root directory and the path below it
File(name, root) == [Name |-> name, Path |-> <<root, name>>]
NoFile == [Name |-> <<>>, Path |-> <<>>]        \* File{}

\* sha256.Sum256: one digest (a number) per content, injective on Contents
Sum256(content) ==
    CASE content = "c1" -> 1
      [] content = "c2" -> 2
      [] content = "c3" -> 3
      [] content = "bad" -> 4
      [] content = Partial -> 5
      [] content = Empty -> 6

\* hex.EncodeToString: lower-case hex digits, as a sequence of characters
EncodeToString(sum) ==
    CASE sum = 1 -> <<"a", "1">>
      [] sum = 2 -> <<"b", "2">>
      [] sum = 3 -> <<"c", "4">>
      [] sum = 4 -> <<"d", "0">>
      [] sum = 5 -> <<"f", "7">>
      [] sum = 6 -> <<"e", "3">>

----------------------------------------------------------------------------
(* URIs *)

UHttp == "http://host/a.tgz"
UFile == "file:///srv/b.tgz"
UBad == "http://host/%zz"       \* url.Parse: invalid URL escape
URIs == {UHttp, UFile, UBad}

\* the content whose hash the manifest should declare for the URI
GoodContent(uri) ==
    CASE uri = UHttp -> "c1"
      [] uri = UFile -> "c2"
      [] uri = UBad -> "c3"

\* url.Parse(uri) succeeds
Parsable(uri) == uri # UBad

\* u.Scheme
Scheme(uri) == IF uri = UFile THEN "file" ELSE "http"

\* fmt.Sprintf("%x", md5.Sum([]byte(uri)))
Md5Hex(uri) ==
    CASE uri = UHttp -> "9f1c"
      [] uri = UFile -> "07ab"
      [] uri = UBad -> "e2d4"

\* filepath.Base(uri)
Base(uri) ==
    CASE uri = UHttp -> "a.tgz"
      [] uri = UFile -> "b.tgz"
      [] uri = UBad -> "%zz"

\* filepath.Join("dependencies", <md5 of URI>, <base of URI>)
CachePath(uri) == <<"dependencies", Md5Hex(uri), Base(uri)>>

CachePaths == {CachePath(u) : u \in URIs}

----------------------------------------------------------------------------
(* What the environment does to one download: the file system under the    *)
(* cache root, the source behind the URI.                                  *)

Outcome(fs, net, status, copy, body) ==
    [fs |-> fs, net |-> net, status |-> status, copy |-> copy, body |-> body]

Outcomes(uri) ==
    {Outcome(fs, "ok", 200, "ok", GoodContent(uri)) : fs \in {"fatal", "mkdir", "create"}}
    \cup {Outcome("ok", "fail", 200, "ok", GoodContent(uri))}
    \cup {Outcome("ok", "ok", st, "ok", GoodContent(uri)) : st \in {199, 300, 404}}
    \cup {Outcome("ok", "ok", st, cp, b) :
            st \in {200, 299}, cp \in {"ok", "fail"}, b \in {GoodContent(uri), "bad"}}

\* Dependency{URI, SHA256, Stacks}
Dependency(uri, sha, stacks) == [URI |-> uri, SHA256 |-> sha, Stacks |-> stacks]

----------------------------------------------------------------------------
(* checkSha256 *)

\* checkSha256 without the comparison of the two digests
CheckSha256_NoCompare(c, path, expectedSha256) ==
    IF c[path] = Absent THEN "read" ELSE NoErr

CheckSha256(c, path, expectedSha256) ==
    IF c[path] = Absent
    THEN "read"                                         \* ioutil.ReadFile fails
    ELSE LET actualSha256 == EncodeToString(Sum256(c[path]))
         IN  IF actualSha256 # expectedSha256 THEN "sha256 mismatch" ELSE NoErr

----------------------------------------------------------------------------
(* downloadFromURI: [cache, err, transfer] *)

DownloadFromURI(c, uri, path, o) ==
    IF o.fs = "mkdir" THEN [cache |-> c, err |-> "mkdir", transfer |-> FALSE]
    ELSE IF o.fs = "create" THEN [cache |-> c, err |-> "create", transfer |-> FALSE]
    ELSE
      LET created == [c EXCEPT ![path] = Empty]         \* os.Create truncates
          copied ==
            IF o.copy = "ok"
            THEN [cache |-> [created EXCEPT ![path] = o.body], err |-> NoErr,
                  transfer |-> TRUE]
            ELSE [cache |-> [created EXCEPT ![path] = Partial], err |-> "copy",
                  transfer |-> TRUE]
      IN  IF ~Parsable(uri)
          THEN [cache |-> created, err |-> "parse", transfer |-> FALSE]
          ELSE IF Scheme(uri) = "file"
          THEN IF o.net = "fail"
               THEN [cache |-> created, err |-> "open", transfer |-> TRUE]
               ELSE copied
          ELSE IF o.net = "fail"
               THEN [cache |-> created, err |-> "get", transfer |-> TRUE]
               ELSE IF o.status < 200 \/ o.status > 299
               THEN [cache |-> created, err |-> "status", transfer |-> TRUE]
               ELSE copied

----------------------------------------------------------------------------
(* downloadDependency: [cache, err, file, transfer, wrote, checked]        *)
(* err = "fatal" is log.Fatalf: the process exits, nothing is returned.    *)

\* os.Stat that never finds the file
Stat_NeverFound(c, path) == FALSE

\* os.Stat(filepath.Join(cacheDir, file)) succeeds
Stat(c, path) == c[path] # Absent

DownloadDependency(c, dependency, o) ==
    LET file == CachePath(dependency.URI)
    IN  IF o.fs = "fatal" /\ \A p \in DOMAIN c : c[p] = Absent   \* os.MkdirAll(cacheDir)
        THEN [cache |-> c, err |-> "fatal", file |-> NoFile, transfer |-> FALSE,
              wrote |-> FALSE, checked |-> FALSE]
        ELSE
          LET present == Stat(c, file)
              dl == IF present
                    THEN [cache |-> c, err |-> NoErr, transfer |-> FALSE]
                    ELSE DownloadFromURI(c, dependency.URI, file, o)
              sha == CheckSha256(dl.cache, file, dependency.SHA256)
          IN  IF dl.err # NoErr
              THEN [cache |-> dl.cache, err |-> dl.err, file |-> NoFile,
                    transfer |-> dl.transfer, wrote |-> dl.cache # c,
                    checked |-> FALSE]
              ELSE IF sha # NoErr
              THEN [cache |-> dl.cache, err |-> sha, file |-> NoFile,
                    transfer |-> dl.transfer, wrote |-> dl.cache # c,
                    checked |-> TRUE]
              ELSE [cache |-> dl.cache, err |-> NoErr, file |-> File(file, "cache"),
                    transfer |-> dl.transfer, wrote |-> dl.cache # c,
                    checked |-> TRUE]

----------------------------------------------------------------------------
(* Manifest documents: manifest.yml as a mapping of its top-level keys.     *)

StackNames == {"s1", "s2"}

Range(seq) == {seq[i] : i \in 1..Len(seq)}

\* an element of "dependencies" that is a mapping
MapEntry(name, uri, stacks) ==
    [isMap |-> TRUE, name |-> name, uri |-> uri,
     sha256 |-> EncodeToString(Sum256(GoodContent(uri))),
     cf_stacks |-> stacks, file |-> <<>>]

\* an element of "dependencies" that is a scalar
ScalarEntry ==
    [isMap |-> FALSE, name |-> "", uri |-> "", sha256 |-> <<>>,
     cf_stacks |-> <<>>, file |-> <<>>]

EntryPool ==
    { MapEntry("ruby", UHttp, <<"s1">>),
      MapEntry("node", UFile, <<"s2">>),
      MapEntry("ruby", UFile, <<"s1", "s2", "s1">>),
      MapEntry("node", UHttp, <<>>),
      ScalarEntry }

SeqsUpTo(S, n) == UNION {[1..k -> S] : k \in 0..n}

\* the "dependencies" key: a sequence, a scalar, or no such key
DepsValue(shape, items) == [shape |-> shape, items |-> items]

Doc(hook, included, defaults, dependencies) ==
    [language |-> "ruby", pre_package |-> hook,
     include_files |-> included,
     default_versions |-> defaults, stack |-> "", other |-> "v1",
     dependencies |-> dependencies]

NoDoc == Doc("", <<>>, <<>>, DepsValue("absent", <<>>))

Docs ==
    {Doc(h, inc, dv, d) :
        h \in {"", "scripts/build.sh"},
        inc \in {<<>>, << <<"bin", "supply">>, <<"manifest.yml">> >>},
        dv \in {<<>>, <<"ruby">>},
        d \in {DepsValue("seq", items) : items \in SeqsUpTo(EntryPool, MaxDeps)}
              \cup {DepsValue("scalar", <<>>), DepsValue("absent", <<>>)}}

\* yaml decoding into the typed structs: a scalar where a sequence or a
\* mapping is expected is an error
Decodable(doc) ==
    /\ doc.dependencies.shape # "scalar"
    /\ \A i \in 1..Len(doc.dependencies.items) : doc.dependencies.items[i].isMap

\* readManifest: the typed view of dir/manifest.yml
ReadManifest(doc, ioOk) ==
    IF ~ioOk THEN [err |-> "read", manifest |-> <<>>]
    ELSE IF ~Decodable(doc) THEN [err |-> "yaml", manifest |-> <<>>]
    ELSE [err |-> NoErr,
          manifest |->
            [Language |-> doc.language,
             PrePackage |-> doc.pre_package,
             IncludeFiles |-> doc.include_files,
             Dependencies |->
                [i \in 1..Len(doc.dependencies.items) |->
                    Dependency(doc.dependencies.items[i].uri,
                               doc.dependencies.items[i].sha256,
                               doc.dependencies.items[i].cf_stacks)]]]

----------------------------------------------------------------------------
(* validateStack *)

\* hasStack: some manifest entry lists the stack
HasStack(entries, stk) ==
    \E i \in 1..Len(entries) : \E j \in 1..Len(entries[i].cf_stacks) :
        entries[i].cf_stacks[j] = stk

\* manifest.DefaultVersion(name) with CF_STACK = cfStack: some entry of that
\* name is built for the stack
DefaultVersion(entries, depName, cfStack) ==
    \E i \in 1..Len(entries) :
        entries[i].name = depName /\ cfStack \in Range(entries[i].cf_stacks)

ValidateStack(stk, doc, ioOk) ==
    IF stk = "" THEN NoErr
    ELSE IF ~ioOk \/ ~Decodable(doc) THEN "manifest"          \* NewManifest
    ELSE IF ~HasStack(doc.dependencies.items, stk) THEN "stack not found"
    ELSE IF \E k \in 1..Len(doc.default_versions) :
              ~DefaultVersion(doc.dependencies.items, doc.default_versions[k], stk)
    THEN "no matching default"
    ELSE NoErr

----------------------------------------------------------------------------
(* The pieces of Package *)

\* updateDependencyMap: [dep, err]
UpdateDependencyMap(dependencyMap, file) ==
    IF ~dependencyMap.isMap
    THEN [dep |-> dependencyMap, err |-> "cast deps[idx]"]
    ELSE [dep |-> [dependencyMap EXCEPT !.file = file.Name], err |-> NoErr]

\* lines 200-214: how often the body of the inner loop runs for dependency d
Retentions(d, stk) ==
    IF \E i \in 1..Len(d.Stacks) : stk = "" \/ d.Stacks[i] = stk THEN 1 ELSE 0

\* lines 180-183: the include files, under the staging directory
IncludedFiles(man) ==
    [i \in 1..Len(man.IncludeFiles) |-> File(man.IncludeFiles[i], "staging")]

\* the bytes ZipFiles reads at file.Path
ReadPath(c, file) ==
    IF file.Path[1] = "cache" THEN c[file.Path[2]] ELSE "staged"

\* the elements of seq at the indexes in I, in the order of seq
RECURSIVE SubseqAt(_, _, _)
SubseqAt(seq, I, k) ==
    IF k = 0 THEN <<>>
    ELSE IF k \in I THEN Append(SubseqAt(seq, I, k - 1), seq[k])
    ELSE SubseqAt(seq, I, k - 1)

\* what ZipFiles can fail on for one file: os.Open (306), Stat (313),
\* FileInfoHeader (318), CreateHeader rejecting the header (328), io.Copy
\* (332) failing to read, on its first read ("read", e.g. the Path is a
\* directory) or after some bytes ("copy"), and a write to the archive
\* failing in CreateHeader or io.Copy ("write")
ZipFailures == {"open", "stat", "header", "createheader", "read", "copy", "write"}

\* the failures that come before CreateHeader has added the file's entry
BeforeEntry == {"open", "stat", "header"}

\* ZipFiles: failAt = 0, os.Create fails (294); failAt = k, the k-th file
\* fails with `kind`; otherwise the loop ends and nil is returned (337).
\* The deferred zipWriter.Close (301) writes the buffered bytes and the
\* directory of the entries added so far, and newfile.Close (298) follows;
\* their errors are discarded. closeOk: those writes succeed. When they do
\* not, or when a write had failed before (the writer's error is sticky),
\* the file has no directory and no entry can be read from it, whatever
\* ZipFiles returns.
ZipFiles(c, fileList, failAt, kind, closeOk) ==
    LET entry(i) == [Name |-> fileList[i].Name, bytes |-> ReadPath(c, fileList[i])]
        broken(i) == [Name |-> fileList[i].Name,
                      bytes |-> IF kind = "copy" THEN Partial ELSE Empty]
        upTo(n) == [i \in 1..n |-> IF i = failAt THEN broken(i) ELSE entry(i)]
        failing == failAt <= Len(fileList)
        listed == IF ~failing THEN Len(fileList)
                  ELSE IF kind \in BeforeEntry THEN failAt - 1 ELSE failAt
        directory == closeOk /\ ~(failing /\ kind = "write")
    IN  IF failAt = 0
        THEN [created |-> FALSE, directory |-> FALSE, entries |-> <<>>,
              err |-> "create"]
        ELSE [created |-> TRUE, directory |-> directory,
              entries |-> IF directory THEN upTo(listed) ELSE <<>>,
              err |-> IF failing THEN kind ELSE NoErr]

\* what a call of ZipFiles can come to, over every failure and every fate
\* of the deferred closes
ZipResults(c, fileList) ==
    {ZipFiles(c, fileList, failAt, kind, closeOk) :
        failAt \in 0..(Len(fileList) + 1), kind \in ZipFailures,
        closeOk \in BOOLEAN}

\* the zip file: whether it exists, whether it ends in a central directory,
\* and the entries that directory lists
NoArchive == [created |-> FALSE, directory |-> FALSE, entries |-> <<>>]

\* what a pre-package hook may leave as dir/manifest.yml
HookResults(doc) ==
    LET items == doc.dependencies.items
        with(shape, its) == [doc EXCEPT !.dependencies = DepsValue(shape, its)]
    IN  {doc, with("scalar", <<>>), [doc EXCEPT !.stack = "s2"]}
        \cup (IF Len(items) = 0 THEN {}
              ELSE {with("seq", [i \in 1..Len(items) |-> items[Len(items) + 1 - i]]),
                    with("seq", Tail(items)),
                    with("seq", [items EXCEPT ![1] = ScalarEntry])})

NoStaging == [exists |-> FALSE, manifest |-> NoDoc, version |-> FALSE]

HandlesIdle ==
    /\ hop = "idle" /\ hin = <<>> /\ hpc = "idle" /\ hidx = 0
    /\ hopen = {} /\ hdefer = <<>> /\ herr = NoErr

EnvIdle ==
    /\ env = "" /\ vdoc = NoDoc /\ vstk = <<>> /\ vpc = <<>> /\ vk = <<>>
    /\ vseen = <<>> /\ verr = <<>>

\* a file on disk as the chunks of the dependency it holds: io.Copy writes
\* the first chunk at offset 0 and the second after it
DiskFile(exists, chunk1, chunk2) == [exists |-> exists, chunk1 |-> chunk1, chunk2 |-> chunk2]

NoDiskFile == DiskFile(FALSE, FALSE, FALSE)

RaceIdle ==
    /\ rfile = NoDiskFile /\ rpc = <<>> /\ rerr = <<>> /\ rbuf = <<>>
    /\ rbytes = <<>>

ExtIdle == ezip = NoArchive

AuxIdle == HandlesIdle /\ EnvIdle /\ RaceIdle /\ ExtIdle

PkgIdle ==
    /\ ppc = "idle" /\ stack = "" /\ cached = FALSE /\ bpManifest = NoDoc
    /\ cache0 = <<>> /\ staging = NoStaging /\ manifest = <<>> /\ m = NoDoc
    /\ deps = <<>> /\ idx = 0 /\ dependenciesForStack = <<>> /\ files = <<>>
    /\ archive = NoArchive /\ zipErr = NoErr /\ perr = NoErr
    /\ steps = <<>> /\ failed = "none" /\ fetched = <<>>

----------------------------------------------------------------------------
(* Source trees: relative path (a sequence of names) -> node.              *)

Node(kind, data) == [kind |-> kind, data |-> data]
NoNode == Node("absent", "")
DirNode == Node("dir", "")

Root == <<>>            \* filepath.Rel(srcDir, srcDir) = "."

\* the names of the model in byte order, the order of filepath.Walk
NameOrder == <<".git", "cfg", "lib", "m", "t", "tests", "zz">>

\* candidate entries, parents first, each with the nodes it may be
Candidates == <<
    [path |-> <<".git">>,
     nodes |-> {Node("file", "c1"), DirNode, Node("link", "t1")}],
    [path |-> <<".git", "cfg">>, nodes |-> {Node("file", "c1")}],
    [path |-> <<"lib">>, nodes |-> {DirNode}],
    [path |-> <<"lib", ".git">>, nodes |-> {Node("file", "c2"), DirNode}],
    [path |-> <<"lib", "m">>,
     nodes |-> {Node("file", "c1"), Node("link", "t1"), Node("link", "t2")}],
    [path |-> <<"lib", "tests">>, nodes |-> {Node("file", "c1"), DirNode}],
    [path |-> <<"lib", "tests", "t">>, nodes |-> {Node("file", "c2")}],
    [path |-> <<"tests">>,
     nodes |-> {Node("file", "c1"), DirNode, Node("link", "t2")}],
    [path |-> <<"tests", "t">>, nodes |-> {Node("file", "c1")}],
    [path |-> <<"zz">>,
     nodes |-> {Node("file", "c1"), Node("file", "c2"), Node("link", "t1")}] >>

InDepth == SelectSeq(Candidates, LAMBDA e : Len(e.path) <= MaxDepth)

Paths == {Root} \cup {InDepth[i].path : i \in 1..Len(InDepth)}

Parent(p) == SubSeq(p, 1, Len(p) - 1)

\* every tree over the first k candidates: an entry exists only in a directory
RECURSIVE TreesUpTo(_)
TreesUpTo(k) ==
    IF k = 0 THEN {[p \in {Root} |-> DirNode]}
    ELSE LET e == InDepth[k]
         IN  UNION {
               {t @@ (e.path :> n) :
                  n \in IF t[Parent(e.path)].kind = "dir"
                        THEN e.nodes \cup {NoNode} ELSE {NoNode}} :
               t \in TreesUpTo(k - 1)}

Trees == TreesUpTo(Len(InDepth))

\* readDirNames: the names in directory p, sorted
Children(tree, p) ==
    LET names == SelectSeq(NameOrder,
                    LAMBDA n : Append(p, n) \in DOMAIN tree
                               /\ tree[Append(p, n)].kind # "absent")
    IN  [i \in 1..Len(names) |-> Append(p, names[i])]

----------------------------------------------------------------------------
(* copyDirectory: filepath.Walk over srcDir, one action per visited entry  *)

\* line 354: path == ".git" || path == "tests", path relative to srcDir
Skipped(path) == path = <<".git">> \/ path = <<"tests">>

\* lines 359-393: what the walk function creates at dest for the entry
CopyNode(node) ==
    CASE node.kind = "link" -> Node("link", node.data)  \* Readlink, Symlink
      [] node.kind = "dir" -> DirNode                   \* MkdirAll
      [] OTHER -> Node("file", node.data)               \* io.Copy(fh, src)

\* filepath.Walk after the walk function returned SkipDir for `path`: a
\* directory is not descended into, for any other entry the remaining entries
\* of its directory are skipped
AfterSkipDir(tree, path, rest) ==
    IF tree[path].kind = "dir"
    THEN rest
    ELSE SelectSeq(rest, LAMBDA q : Parent(q) # Parent(path))

\* filepath.Walk after the walk function returned nil for `path`
AfterVisit(tree, path, rest) ==
    IF tree[path].kind = "dir" THEN Children(tree, path) \o rest ELSE rest

InitCopy ==
    /\ AuxIdle
    /\ PkgIdle
    /\ cache = [p \in CachePaths |-> Absent]
    /\ fdep = Dependency(UHttp, <<>>, <<>>) /\ calls = <<>>
    /\ srcTree \in Trees
    /\ destTree = [p \in Paths |-> NoNode]
    /\ todo = <<>>
    /\ cpc = "start"
    /\ cerr = NoErr

\* line 341: ioutil.TempDir
TempDir ==
    /\ cpc = "start"
    /\ \/ /\ cpc' = "walk"
          /\ todo' = <<Root>>
          /\ cerr' = NoErr
       \/ /\ cpc' = "returned"
          /\ todo' = <<>>
          /\ cerr' = "tempdir"
    /\ UNCHANGED <<cache, fetchVars, srcTree, destTree, pkgVars>>
    /\ UNCHANGED auxVars

\* lines 354-356: the entry is excluded
VisitSkipped ==
    /\ cpc = "walk" /\ todo # <<>>
    /\ Skipped(Head(todo))
    /\ todo' = AfterSkipDir(srcTree, Head(todo), Tail(todo))
    /\ UNCHANGED <<cache, fetchVars, srcTree, destTree, cpc, cerr, pkgVars>>
    /\ UNCHANGED auxVars

\* lines 358-394: the entry is recreated under destDir
VisitCopied ==
    /\ cpc = "walk" /\ todo # <<>>
    /\ ~Skipped(Head(todo))
    /\ destTree' = [destTree EXCEPT ![Head(todo)] = CopyNode(srcTree[Head(todo)])]
    /\ todo' = AfterVisit(srcTree, Head(todo), Tail(todo))
    /\ UNCHANGED <<cache, fetchVars, srcTree, cpc, cerr, pkgVars>>
    /\ UNCHANGED auxVars

\* lines 346-392: an I/O error on the entry aborts the walk
VisitFailed ==
    /\ cpc = "walk" /\ todo # <<>>
    /\ cpc' = "returned"
    /\ cerr' = "io"
    /\ todo' = <<>>
    /\ UNCHANGED <<cache, fetchVars, srcTree, destTree, pkgVars>>
    /\ UNCHANGED auxVars

\* line 396: the walk is over
WalkReturn ==
    /\ cpc = "walk" /\ todo = <<>>
    /\ cpc' = "returned"
    /\ UNCHANGED <<cache, fetchVars, srcTree, destTree, todo, cerr, pkgVars>>
    /\ UNCHANGED auxVars

NextCopy == TempDir \/ VisitSkipped \/ VisitCopied \/ VisitFailed \/ WalkReturn

SpecCopy == InitCopy /\ [][NextCopy]_vars

----------------------------------------------------------------------------
(* SpecFetch: sequential downloadDependency calls with one dependency and  *)
(* one cache root, from every state of the dependency's cache path.        *)

Shas == {EncodeToString(Sum256(c)) : c \in {"c1", "c2", "c3"}} \cup {<<"A", "1">>}

CopyIdle ==
    /\ srcTree = <<>> /\ destTree = <<>> /\ todo = <<>>
    /\ cpc = "idle" /\ cerr = NoErr

\* the source behind the URI is available and serves the right bytes, and
\* the cache directory can be written
SourceOk(uri, o) ==
    /\ Parsable(uri)
    /\ o.fs = "ok" /\ o.net = "ok" /\ o.copy = "ok"
    /\ o.status >= 200 /\ o.status <= 299
    /\ o.body = GoodContent(uri)

InitFetch ==
    /\ AuxIdle
    /\ CopyIdle /\ PkgIdle
    /\ fdep \in {Dependency(u, s, <<>>) : u \in URIs, s \in Shas}
    /\ \E k \in Contents \cup {Absent} :
         cache = [p \in CachePaths |-> IF p = CachePath(fdep.URI) THEN k ELSE Absent]
    /\ calls = <<>>

FetchCall ==
    /\ Len(calls) < MaxCalls
    /\ \E o \in Outcomes(fdep.URI) :
         LET r == DownloadDependency(cache, fdep, o)
             path == CachePath(fdep.URI)
         IN  /\ cache' = r.cache
             /\ calls' = Append(calls,
                    [err |-> r.err, file |-> r.file, transfer |-> r.transfer,
                     wrote |-> r.wrote, checked |-> r.checked,
                     before |-> cache[path], after |-> r.cache[path],
                     srcOk |-> SourceOk(fdep.URI, o)])
    /\ UNCHANGED <<fdep, copyVars, pkgVars>>
    /\ UNCHANGED auxVars

NextFetch == FetchCall

SpecFetch == InitFetch /\ [][NextFetch]_vars

----------------------------------------------------------------------------
(* Spec: one run of Package(bpDir, cacheDir, version, stack, cached), one  *)
(* action per step.                                                        *)

InitialCaches ==
    {[p \in CachePaths |-> IF p = CachePath(UHttp) THEN k ELSE Absent] :
        k \in {Absent, "c1", "bad"}}

Init ==
    /\ AuxIdle
    /\ CopyIdle
    /\ fdep = Dependency(UHttp, <<>>, <<>>) /\ calls = <<>>
    /\ stack \in {""} \cup StackNames
    /\ cached \in BOOLEAN
    /\ bpManifest \in Docs
    /\ cache \in InitialCaches
    /\ cache0 = cache
    /\ ppc = "start"
    /\ staging = NoStaging /\ manifest = <<>> /\ m = NoDoc
    /\ deps = <<>> /\ idx = 0 /\ dependenciesForStack = <<>> /\ files = <<>>
    /\ archive = NoArchive /\ zipErr = NoErr /\ perr = NoErr
    /\ steps = <<>> /\ failed = "none" /\ fetched = <<>>

\* return "", err
Fail(step, err) == ppc' = "returned" /\ perr' = err /\ failed' = step

Go(pos) == ppc' = pos /\ UNCHANGED <<perr, failed>>

Copies(x, n) == [i \in 1..n |-> x]

\* lines 151-154
PkgValidate ==
    /\ ppc = "start"
    /\ steps' = Append(steps, "validate")
    /\ \E ioOk \in BOOLEAN :
         LET err == ValidateStack(stack, bpManifest, ioOk)
         IN  IF err # NoErr THEN Fail("validate", err) ELSE Go("validated")
    /\ UNCHANGED <<cache, fetchVars, copyVars, pkgIn, staging, pkgLoc, archive,
                   zipErr, fetched>>
    /\ UNCHANGED auxVars

\* lines 155-158: copyDirectory(bpDir)
PkgStage ==
    /\ ppc = "validated"
    /\ steps' = Append(steps, "stage")
    /\ \/ /\ staging' = [exists |-> TRUE, manifest |-> bpManifest, version |-> FALSE]
          /\ Go("staged")
       \/ /\ staging' = [exists |-> TRUE, manifest |-> NoDoc, version |-> FALSE]
          /\ Fail("stage", "io")
    /\ UNCHANGED <<cache, fetchVars, copyVars, pkgIn, pkgLoc, archive, zipErr, fetched>>
    /\ UNCHANGED auxVars

\* lines 160-163: the VERSION file
PkgVersion ==
    /\ ppc = "staged"
    /\ steps' = Append(steps, "version")
    /\ \/ /\ staging' = [staging EXCEPT !.version = TRUE]
          /\ Go("versioned")
       \/ /\ UNCHANGED staging
          /\ Fail("version", "io")
    /\ UNCHANGED <<cache, fetchVars, copyVars, pkgIn, pkgLoc, archive, zipErr, fetched>>
    /\ UNCHANGED auxVars

\* lines 165-168: readManifest(dir)
PkgReadManifest ==
    /\ ppc = "versioned"
    /\ steps' = Append(steps, "read")
    /\ \E ioOk \in BOOLEAN :
         LET r == ReadManifest(staging.manifest, ioOk)
         IN  IF r.err # NoErr
             THEN Fail("read", r.err) /\ UNCHANGED manifest
             ELSE Go("loaded") /\ manifest' = r.manifest
    /\ UNCHANGED <<cache, fetchVars, copyVars, pkgIn, staging, m, deps, idx,
                   dependenciesForStack, files, archive, zipErr, fetched>>
    /\ UNCHANGED auxVars

\* lines 170-178: the pre-package hook, run in dir
PkgHook ==
    /\ ppc = "loaded"
    /\ manifest.PrePackage # ""
    /\ steps' = Append(steps, "hook")
    /\ \/ /\ \E doc \in HookResults(staging.manifest) :
               staging' = [staging EXCEPT !.manifest = doc]
          /\ Go("hooked")
       \/ /\ UNCHANGED staging
          /\ Fail("hook", "exit status")
    /\ UNCHANGED <<cache, fetchVars, copyVars, pkgIn, pkgLoc, archive, zipErr, fetched>>
    /\ UNCHANGED auxVars

\* line 170: no hook is declared
PkgNoHook ==
    /\ ppc = "loaded"
    /\ manifest.PrePackage = ""
    /\ Go("hooked")
    /\ UNCHANGED <<cache, fetchVars, copyVars, pkgIn, staging, pkgLoc, archive,
                   zipErr, steps, fetched>>
    /\ UNCHANGED auxVars

\* lines 180-198: the file list, the raw document, its "dependencies"
PkgLoadRaw ==
    /\ ppc = "hooked"
    /\ steps' = Append(steps, "transform")
    /\ files' = IncludedFiles(manifest)
    /\ \E ioOk \in BOOLEAN :
         LET doc == staging.manifest
             raw == IF stack # "" THEN [doc EXCEPT !.stack = stack] ELSE doc
         IN  IF ~ioOk
             THEN Fail("transform", "load") /\ UNCHANGED <<m, deps, idx>>
             ELSE IF raw.dependencies.shape # "seq"
             THEN /\ Fail("transform", "cast dependencies")
                  /\ m' = raw
                  /\ UNCHANGED <<deps, idx>>
             ELSE /\ Go("filter")
                  /\ m' = raw
                  /\ deps' = raw.dependencies.items
                  /\ idx' = 1
    /\ UNCHANGED <<cache, fetchVars, copyVars, pkgIn, staging, manifest,
                   dependenciesForStack, archive, zipErr, fetched>>
    /\ UNCHANGED auxVars

\* lines 199-216, a dependency no stack of which matches
PkgFilterDrop ==
    /\ ppc = "filter" /\ idx <= Len(manifest.Dependencies)
    /\ Retentions(manifest.Dependencies[idx], stack) = 0
    /\ idx' = idx + 1
    /\ UNCHANGED <<cache, fetchVars, copyVars, pkgIn, staging, manifest, m, deps,
                   dependenciesForStack, files, archive, zipErr, fetched, ppc,
                   perr, failed, steps>>
    /\ UNCHANGED auxVars

\* line 202: deps[idx] with idx out of range is a run-time panic
PkgFilterPanic ==
    /\ ppc = "filter" /\ idx <= Len(manifest.Dependencies)
    /\ Retentions(manifest.Dependencies[idx], stack) > 0
    /\ idx > Len(deps)
    /\ ppc' = "panicked"
    /\ failed' = "transform"
    /\ UNCHANGED <<cache, fetchVars, copyVars, pkgIn, staging, pkgLoc, archive,
                   zipErr, fetched, perr, steps>>
    /\ UNCHANGED auxVars


\* lines 199-216 with cached = false, giving the retained entry a "file"
PkgFilterKeep_AddsFile ==
    /\ ppc = "filter" /\ idx <= Len(manifest.Dependencies)
    /\ Retentions(manifest.Dependencies[idx], stack) > 0
    /\ idx <= Len(deps)
    /\ ~cached
    /\ dependenciesForStack' = dependenciesForStack
            \o Copies([deps[idx] EXCEPT !.file = CachePath(manifest.Dependencies[idx].URI)],
                      Retentions(manifest.Dependencies[idx], stack))
    /\ idx' = idx + 1
    /\ UNCHANGED <<cache, fetchVars, copyVars, pkgIn, staging, manifest, m, deps,
                   files, archive, zipErr, fetched, ppc, perr, failed, steps>>
    /\ UNCHANGED auxVars

\* lines 199-216, a retained dependency, cached = false
PkgFilterKeep ==
    /\ ppc = "filter" /\ idx <= Len(manifest.Dependencies)
    /\ Retentions(manifest.Dependencies[idx], stack) > 0
    /\ idx <= Len(deps)
    /\ ~cached
    /\ dependenciesForStack' = dependenciesForStack
            \o Copies(deps[idx], Retentions(manifest.Dependencies[idx], stack))
    /\ idx' = idx + 1
    /\ UNCHANGED <<cache, fetchVars, copyVars, pkgIn, staging, manifest, m, deps,
                   files, archive, zipErr, fetched, ppc, perr, failed, steps>>
    /\ UNCHANGED auxVars

\* lines 199-216, a retained dependency, cached = true
PkgFilterFetch ==
    /\ ppc = "filter" /\ idx <= Len(manifest.Dependencies)
    /\ Retentions(manifest.Dependencies[idx], stack) > 0
    /\ idx <= Len(deps)
    /\ cached
    /\ \E o \in Outcomes(manifest.Dependencies[idx].URI) :
         LET d == manifest.Dependencies[idx]
             n == Retentions(d, stack)
             r == DownloadDependency(cache, d, o)
             u == UpdateDependencyMap(deps[idx], r.file)
         IN  /\ cache' = r.cache
             /\ IF r.err = "fatal"
                THEN /\ ppc' = "exited" /\ failed' = "fetch"
                     /\ fetched' = Append(fetched, d.URI)
                     /\ UNCHANGED <<perr, deps, files, dependenciesForStack, idx>>
                ELSE IF r.err # NoErr
                THEN /\ Fail("fetch", r.err)
                     /\ fetched' = Append(fetched, d.URI)
                     /\ UNCHANGED <<deps, files, dependenciesForStack, idx>>
                ELSE /\ ppc' = ppc /\ perr' = perr
                     /\ failed' = IF u.err # NoErr THEN "cast" ELSE failed
                     /\ fetched' = fetched \o Copies(d.URI, n)
                     /\ deps' = [deps EXCEPT ![idx] = u.dep]
                     /\ files' = files \o Copies(r.file, n)
                     /\ dependenciesForStack' = dependenciesForStack \o Copies(u.dep, n)
                     /\ idx' = idx + 1
    /\ UNCHANGED <<fetchVars, copyVars, pkgIn, staging, manifest, m, archive,
                   zipErr, steps>>
    /\ UNCHANGED auxVars

\* lines 217-221 writing back a document that lost its other top-level keys
PkgWrite_DropsOtherKeys ==
    /\ ppc = "filter" /\ idx > Len(manifest.Dependencies)
    /\ m' = [m EXCEPT !.dependencies = DepsValue("seq", dependenciesForStack),
                      !.other = ""]
    /\ \/ /\ staging' = [staging EXCEPT !.manifest = m']
          /\ Go("written")
       \/ /\ UNCHANGED staging
          /\ Fail("write", "io")
    /\ UNCHANGED <<cache, fetchVars, copyVars, pkgIn, manifest, deps, idx,
                   dependenciesForStack, files, archive, zipErr, fetched, steps>>
    /\ UNCHANGED auxVars

\* lines 217-221: the rewritten manifest
PkgWrite ==
    /\ ppc = "filter" /\ idx > Len(manifest.Dependencies)
    /\ m' = [m EXCEPT !.dependencies = DepsValue("seq", dependenciesForStack)]
    /\ \/ /\ staging' = [staging EXCEPT !.manifest = m']
          /\ Go("written")
       \/ /\ UNCHANGED staging
          /\ Fail("write", "io")
    /\ UNCHANGED <<cache, fetchVars, copyVars, pkgIn, manifest, deps, idx,
                   dependenciesForStack, files, archive, zipErr, fetched, steps>>
    /\ UNCHANGED auxVars

\* line 231: the error Package returns after ZipFiles, the `err` of line 165
ReturnedErr(zerr, outer) == outer

\* lines 223-231: the archive
PkgZip ==
    /\ ppc = "written"
    /\ steps' = Append(steps, "archive")
    /\ \E r \in ZipResults(cache, files) :
             /\ archive' = [created |-> r.created, directory |-> r.directory,
                            entries |-> r.entries]
             /\ zipErr' = r.err
             /\ failed' = IF r.err # NoErr THEN "archive" ELSE failed
             /\ perr' = ReturnedErr(r.err, NoErr)
    /\ ppc' = "returned"
    /\ UNCHANGED <<cache, fetchVars, copyVars, pkgIn, staging, pkgLoc, fetched>>
    /\ UNCHANGED auxVars

Next ==
    \/ PkgValidate \/ PkgStage \/ PkgVersion \/ PkgReadManifest
    \/ PkgHook \/ PkgNoHook \/ PkgLoadRaw
    \/ PkgFilterDrop \/ PkgFilterPanic \/ PkgFilterKeep \/ PkgFilterFetch
    \/ PkgWrite \/ PkgZip

Spec == Init /\ [][Next]_vars

----------------------------------------------------------------------------
(* Claims about Package, under Spec *)

\* the rewritten manifest is on disk
Written == ppc = "written" \/ "archive" \in Range(steps)

\* the "dependencies" sequence of the manifest in the staging directory
WrittenDeps == staging.manifest.dependencies.items

StripFile(e) == [e EXCEPT !.file = <<>>]

Stripped(entries) == [i \in 1..Len(entries) |-> StripFile(entries[i])]

\* the entries of a raw "dependencies" sequence whose cf_stacks list the stack
Listing(entries, stk) ==
    {i \in 1..Len(entries) : stk \in Range(entries[i].cf_stacks)}

\* C1: for a non-empty target stack S the "dependencies" sequence Package
\* writes is the subsequence of the dependency entries of the manifest it
\* rewrites whose cf_stacks contain S: each such entry once, no entry that
\* does not list S, in the original order; and those entries are the ones of
\* the source manifest when no hook ran.
C1_FilterExact ==
    (Written /\ stack # "")
        => /\ Stripped(WrittenDeps)
                = SubseqAt(Stripped(deps), Listing(deps, stack), Len(deps))
           /\ \A i \in 1..Len(WrittenDeps) : stack \in Range(WrittenDeps[i].cf_stacks)
           /\ "hook" \notin Range(steps)
                => Stripped(deps) = bpManifest.dependencies.items

\* C2: with an empty target stack every dependency of the manifest is in the
\* rewritten "dependencies" sequence, whatever its Stacks.
C2_EmptyStackRetainsAll ==
    (Written /\ stack = "")
        => Stripped(WrittenDeps)
             = [i \in 1..Len(manifest.Dependencies) |-> StripFile(deps[i])]

\* the archive builder wrote every entry and reported success
ArchiveComplete ==
    /\ zipErr = NoErr /\ archive.created /\ archive.directory
    /\ Len(archive.entries) = Len(files)

\* the failures C5 lists: validation, staging, VERSION write, manifest load,
\* pre-package hook, dependency fetch, manifest write, archive build
ListedFailures ==
    {"validate", "stage", "version", "read", "hook", "transform", "fetch",
     "write", "archive"}

\* C5: when Package returns, a failure of any of its steps is returned as a
\* non-nil error, and a nil error is returned only if the archive builder
\* wrote every entry and reported success.
C5_FailuresReturned ==
    ppc = "returned"
        => /\ failed \in ListedFailures => perr # NoErr
           /\ perr = NoErr => ArchiveComplete

StepOrder == <<"validate", "stage", "version", "read", "hook", "transform", "archive">>

StepOrderNoHook == <<"validate", "stage", "version", "read", "transform", "archive">>

IsPrefix(a, b) == Len(a) <= Len(b) /\ a = SubSeq(b, 1, Len(a))

\* the step a failure happened in
StepOf(f) == IF f \in {"fetch", "write", "cast"} THEN "transform" ELSE f

\* C6: the steps of a run start in the order validate, stage, VERSION, hook
\* (if declared), transform with its fetches, archive, and none starts after
\* a failure in an earlier step (the failed step is the last one started);
\* a failure whose error Package receives ends the run; a failed validation
\* leaves no staging directory, and a failure before the transform leaves no
\* fetch, the cache directory as it was and no archive.
C6_StepOrder ==
    /\ IsPrefix(steps, StepOrder) \/ IsPrefix(steps, StepOrderNoHook)
    /\ "transform" \in Range(steps)
         => ("hook" \in Range(steps) <=> manifest.PrePackage # "")
    /\ failed # "none" => steps[Len(steps)] = StepOf(failed)
    /\ failed \notin {"none", "cast", "archive"}
         => ppc \in {"returned", "exited", "panicked"}
    /\ failed = "validate" => ~staging.exists
    /\ (fetched # <<>> \/ cache # cache0) => "transform" \in Range(steps)
    /\ archive.created => "archive" \in Range(steps)
    /\ failed \in {"validate", "stage", "version", "read", "hook"}
         => (fetched = <<>> /\ cache = cache0 /\ archive = NoArchive)

\* C9: after a successful cached run every entry of the rewritten
\* "dependencies" carries the Name of the File fetched for it in "file", and
\* the file list of the archive is the include files followed by one File
\* per retained dependency, in order; nothing else was fetched.
C9_CachedFiles ==
    (ppc = "returned" /\ perr = NoErr /\ ArchiveComplete /\ cached)
        => LET inc == IncludedFiles(manifest)
               kept == SubseqAt(manifest.Dependencies,
                                {i \in 1..Len(manifest.Dependencies) :
                                    Retentions(manifest.Dependencies[i], stack) > 0},
                                Len(manifest.Dependencies))
           IN  /\ Len(WrittenDeps) = Len(kept)
               /\ files = inc \o [i \in 1..Len(kept) |->
                                    File(CachePath(kept[i].URI), "cache")]
               /\ fetched = [i \in 1..Len(kept) |-> kept[i].URI]
               /\ \A i \in 1..Len(kept) :
                    /\ WrittenDeps[i].isMap
                    /\ WrittenDeps[i].file = files[Len(inc) + i].Name

CastErrs == {"cast dependencies", "cast deps[idx]"}

\* the raw document was loaded and is malformed: "dependencies" is no
\* sequence, or a retained entry is no mapping
Malformed ==
    /\ "transform" \in Range(steps) /\ perr # "load"
    /\ \/ m.dependencies.shape # "seq"
       \/ \E i \in 1..Len(dependenciesForStack) : ~dependenciesForStack[i].isMap

\* C10: on a malformed raw document Package returns a cast failure, writes
\* no rewritten manifest and builds no archive.
C10_CastFailuresReported ==
    (Malformed /\ ppc \in {"written", "returned"})
        => (perr \in CastErrs /\ ~Written /\ ~archive.created)

----------------------------------------------------------------------------
(* Claims about the stager, under SpecCopy *)

ExcludedNames == {".git", "tests"}

\* some component of the path is an excluded name
UnderExcluded(p) == \E i \in 1..Len(p) : p[i] \in ExcludedNames

\* C7: the staged copy contains no path any of whose components is `.git` or
\* `tests`, at any depth.
C7_NoExcludedAtAnyDepth ==
    \A p \in Paths : UnderExcluded(p) => destTree[p] = NoNode

\* C8: when copyDirectory succeeds, every source entry that is not named
\* `.git` or `tests` and does not lie under such an entry is in the staged copy
\* at the same path with the same kind, bytes or link target.
C8_Fidelity ==
    (cpc = "returned" /\ cerr = NoErr)
        => \A p \in Paths :
              (srcTree[p] # NoNode /\ ~UnderExcluded(p)) => destTree[p] = srcTree[p]

----------------------------------------------------------------------------
(* Claims about the fetcher, under SpecFetch *)

HashesTo(content, sha) ==
    content # Absent /\ EncodeToString(Sum256(content)) = sha

\* C3: a call whose cache file, after the presence/download step, does not
\* hash to the declared SHA256 returns an error and no File, whether the file
\* was downloaded by the call or was already cached; a call that succeeds has
\* recomputed the digest and found it equal.
C3_MismatchAlwaysFails ==
    \A i \in 1..Len(calls) :
        /\ ~HashesTo(calls[i].after, fdep.SHA256)
              => (calls[i].err # NoErr /\ calls[i].file = NoFile)
        /\ calls[i].err = NoErr
              => (calls[i].checked /\ HashesTo(calls[i].after, fdep.SHA256)
                  /\ calls[i].file = File(CachePath(fdep.URI), "cache"))

\* a downloaded file and an already cached file were both rejected
C3_Witness ==
    \E i, j \in 1..Len(calls) :
        /\ calls[i].transfer /\ calls[i].before = Absent
        /\ calls[i].err = "sha256 mismatch"
        /\ calls[j].before # Absent /\ ~calls[j].wrote
        /\ calls[j].err = "sha256 mismatch"

AtMostOneTransfer ==
    Cardinality({i \in 1..Len(calls) : calls[i].transfer}) <= 1

VerifiedNeverRewritten ==
    \A i, j \in 1..Len(calls) :
        (i < j /\ calls[i].err = NoErr) => ~calls[j].wrote

SuccessesAgree ==
    \A i, j \in 1..Len(calls) :
        (calls[i].err = NoErr /\ calls[j].err = NoErr)
            => (calls[i].file = calls[j].file /\ calls[i].after = calls[j].after)

\* the errors of the presence/download step (lines 129-136)
DownloadErrs == {"fatal", "mkdir", "create", "parse", "open", "get", "status", "copy"}

\* C4 as stated: at most one call transfers from the source, every call
\* recomputes and checks the checksum, no call writes to the cache path after
\* a call has verified it, and all successful calls return the same File with
\* the same bytes.
C4_Original ==
    /\ AtMostOneTransfer
    /\ \A i \in 1..Len(calls) : calls[i].checked
    /\ VerifiedNeverRewritten
    /\ SuccessesAgree

\* C4 amended: as C4, but the checksum is recomputed and checked by every call
\* that gets past the presence/download step (the file was already cached, or
\* the call's own download succeeded); a call whose download fails returns
\* the download error without checking.
C4_Idempotent ==
    /\ AtMostOneTransfer
    /\ \A i \in 1..Len(calls) :
          /\ calls[i].err \notin DownloadErrs => calls[i].checked
          /\ calls[i].before # Absent => (calls[i].checked /\ ~calls[i].transfer)
    /\ VerifiedNeverRewritten
    /\ SuccessesAgree

\* a call downloaded and verified the file, a later call verified it again
\* without a transfer
C4_Witness ==
    \E i, j \in 1..Len(calls) :
        /\ i < j
        /\ calls[i].transfer /\ calls[i].err = NoErr
        /\ ~calls[j].transfer /\ calls[j].checked /\ calls[j].err = NoErr

\* strings.ToLower on one hex digit
LowerChar(ch) ==
    CASE ch = "A" -> "a" [] ch = "B" -> "b" [] ch = "C" -> "c"
      [] ch = "D" -> "d" [] ch = "E" -> "e" [] ch = "F" -> "f"
      [] OTHER -> ch

\* two hex strings are equal up to letter case
EqualFold(a, b) ==
    /\ Len(a) = Len(b)
    /\ \A i \in 1..Len(a) : LowerChar(a[i]) = LowerChar(b[i])

\* C11: the checksum comparison is case-insensitive on the hex digits: a call
\* that checks the file at the cache path succeeds exactly when the declared
\* SHA256 equals the file's digest up to letter case.
C11_CaseInsensitive ==
    \A i \in 1..Len(calls) :
        calls[i].checked
            => (calls[i].err = NoErr
                  <=> EqualFold(fdep.SHA256, EncodeToString(Sum256(calls[i].after))))

\* the errors of a download that failed at the source (lines 246-269)
SourceErrs == {"parse", "open", "get", "status"}

\* C19: a call that fails because the download failed leaves no file at the
\* cache path, and the next call, made with the source available and right
\* and the right checksum declared, downloads again and succeeds.
C19_FailedDownloadLeavesNoFile ==
    \A i \in 1..Len(calls) :
        calls[i].err \in SourceErrs
            => /\ calls[i].after = Absent
               /\ (/\ i < Len(calls)
                   /\ calls[i + 1].srcOk
                   /\ fdep.SHA256 = EncodeToString(Sum256(GoodContent(fdep.URI))))
                    => (calls[i + 1].transfer /\ calls[i + 1].err = NoErr)

\* the raw entry describes the typed dependency
Describes(e, d) ==
    /\ e.isMap
    /\ e.uri = d.URI /\ e.sha256 = d.SHA256 /\ e.cf_stacks = d.Stacks

\* C15: once both views are loaded, the raw "dependencies" sequence has an
\* entry at every index of the typed Dependencies and that entry describes
\* the same dependency, also after a pre-package hook rewrote the manifest.
C15_ViewsAligned ==
    ppc \in {"filter", "panicked"}
        => /\ Len(deps) = Len(manifest.Dependencies)
           /\ \A i \in 1..Len(manifest.Dependencies) :
                 Describes(deps[i], manifest.Dependencies[i])

\* the top-level keys of a document other than "stack" and "dependencies"
OtherKeys(doc) ==
    <<doc.language, doc.pre_package, doc.include_files, doc.default_versions,
      doc.other>>

\* C16: the manifest Package writes differs from the staged one only in
\* "stack" (the target stack when that is non-empty, else as it was) and in
\* "dependencies"; every other top-level key is unchanged, and every written
\* entry is an entry of the staged manifest on all fields other than "file".
C16_WriteFrame ==
    [][(ppc = "filter" /\ ppc' = "written")
        => /\ OtherKeys(staging'.manifest) = OtherKeys(staging.manifest)
           /\ staging'.manifest.stack
                = (IF stack # "" THEN stack ELSE staging.manifest.stack)
           /\ staging'.manifest.dependencies.shape = "seq"
           /\ \A i \in 1..Len(staging'.manifest.dependencies.items) :
                \E j \in 1..Len(staging.manifest.dependencies.items) :
                    StripFile(staging'.manifest.dependencies.items[i])
                        = StripFile(staging.manifest.dependencies.items[j])]_vars

\* a manifest whose hook set a "stack" key was rewritten for the empty target
\* stack, with a retained entry that was given a "file"
C16_Witness ==
    /\ Written /\ stack = "" /\ cached
    /\ staging.manifest.stack = "s2"
    /\ staging.manifest.other = "v1"
    /\ \E i \in 1..Len(WrittenDeps) : WrittenDeps[i].file # <<>>

\* C17: with cached = false no dependency is fetched, the cache is left as
\* it was, every retained raw entry is written back unmodified (no "file"
\* is added), and the file list of the archive is the include files only.
C17_UncachedTouchesNothing ==
    ~cached
        => /\ fetched = <<>>
           /\ cache = cache0
           /\ "transform" \in Range(steps)
                => files = IncludedFiles(manifest)
           /\ Written
                => /\ \A i \in 1..Len(WrittenDeps) :
                        \E j \in 1..Len(deps) : WrittenDeps[i] = deps[j]
                   /\ "hook" \notin Range(steps)
                        => /\ deps = bpManifest.dependencies.items
                           /\ \A i \in 1..Len(WrittenDeps) : WrittenDeps[i].file = <<>>
           /\ (ppc = "returned" /\ ArchiveComplete)
                => [i \in 1..Len(archive.entries) |-> archive.entries[i].Name]
                      = manifest.IncludeFiles

\* an uncached run kept a dependency, wrote the manifest and built the
\* archive of a manifest with include files over a cache that held a file
C17_Witness ==
    /\ ~cached /\ ppc = "returned" /\ ArchiveComplete
    /\ Len(WrittenDeps) >= 1
    /\ Len(archive.entries) = 2
    /\ \E p \in CachePaths : cache[p] # Absent

\* C18: an archive ZipFiles built without error has exactly one entry per
\* element of the file list, in the order of the list, each named by its
\* File's Name and holding the bytes at its File's Path; Files that share a
\* Name give one entry each.
C18_ArchiveEntries ==
    (ppc = "returned" /\ archive.created /\ zipErr = NoErr)
        => /\ archive.directory
           /\ Len(archive.entries) = Len(files)
           /\ \A i \in 1..Len(files) :
                /\ archive.entries[i].Name = files[i].Name
                /\ archive.entries[i].bytes = ReadPath(cache, files[i])

----------------------------------------------------------------------------
(* SpecHandles: one call of downloadFromURI, checkSha256, ZipFiles or the   *)
(* regular-file branch of copyDirectory's callback, statement by statement, *)
(* with the file handles and response bodies it holds open.                 *)

\* a handle: the variable that holds it and, in a loop, the iteration
Handle(name, i) == <<name, i>>

HandleOps == {"download", "checksum", "zip", "copyfile"}

\* what the file branch of the callback can fail on: os.Open (374),
\* os.MkdirAll (380), os.OpenFile (385), io.Copy (390)
CopyFileFailures == {"open", "mkdir", "openfile", "copy"}

ZipPool == {File(<<"bin", "supply">>, "staging"), File(CachePath(UHttp), "cache")}

HandleInputs(op) ==
    CASE op = "download" ->
            UNION {{[uri |-> u, o |-> o] : o \in Outcomes(u)} : u \in URIs}
      [] op = "checksum" ->
            {[content |-> c, sha |-> sh] :
                c \in {Absent, "c1", "bad"}, sh \in {EncodeToString(Sum256("c1"))}}
      [] op = "zip" ->
            {[files |-> fl, failAt |-> k, kind |-> kd] :
                fl \in SeqsUpTo(ZipPool, MaxFiles), k \in 0..(MaxFiles + 1),
                kd \in ZipFailures}
      [] op = "copyfile" ->
            {[fail |-> f] : f \in CopyFileFailures \cup {"none"}}

FirstPc(op) ==
    CASE op = "download" -> "create"
      [] op = "checksum" -> "read"
      [] op = "zip" -> "create"
      [] op = "copyfile" -> "src"

InitHandles ==
    /\ CopyIdle /\ PkgIdle
    /\ cache = [p \in CachePaths |-> Absent]
    /\ fdep = Dependency(UHttp, <<>>, <<>>) /\ calls = <<>>
    /\ HandlesIdle
    /\ EnvIdle
    /\ RaceIdle
    /\ ExtIdle

\* the call of one of the operations
HCall ==
    /\ hop = "idle"
    /\ \E op \in HandleOps : \E in \in HandleInputs(op) :
         /\ hop' = op /\ hin' = in /\ hpc' = FirstPc(op)
    /\ UNCHANGED <<hidx, hopen, hdefer, herr, notHVars>>

\* an early `return err`: nothing opened by this statement
HFail(e) == herr' = e /\ hpc' = "return" /\ UNCHANGED <<hopen, hdefer>>

\* lines 235-244: MkdirAll, os.Create, defer output.Close()
DlCreate ==
    /\ hop = "download" /\ hpc = "create"
    /\ IF hin.o.fs \in {"mkdir", "create"}
       THEN HFail(hin.o.fs)
       ELSE /\ hopen' = hopen \cup {Handle("output", 0)}
            /\ hdefer' = Append(hdefer, Handle("output", 0))
            /\ hpc' = "source" /\ UNCHANGED herr
    /\ UNCHANGED <<hop, hin, hidx, notHVars>>

\* lines 246-269 with the response body left out of the deferred closes
DlSource_BodyNotDeferred ==
    /\ hop = "download" /\ hpc = "source"
    /\ LET uri == hin.uri
           o == hin.o
           ret(e) == /\ herr' = e /\ hpc' = "return"
           open(h) == /\ hopen' = hopen \cup {h}
                      /\ hdefer' = IF h[1] = "response.Body" THEN hdefer ELSE Append(hdefer, h)
       IN  IF ~Parsable(uri)
           THEN ret("parse") /\ UNCHANGED <<hopen, hdefer>>
           ELSE IF Scheme(uri) = "file"
           THEN IF o.net = "fail"
                THEN ret("open") /\ UNCHANGED <<hopen, hdefer>>
                ELSE open(Handle("source", 0)) /\ hpc' = "copy" /\ UNCHANGED herr
           ELSE IF o.net = "fail"
                THEN ret("get") /\ UNCHANGED <<hopen, hdefer>>
                ELSE /\ open(Handle("response.Body", 0))
                     /\ IF o.status < 200 \/ o.status > 299
                        THEN ret("status")
                        ELSE hpc' = "copy" /\ UNCHANGED herr
    /\ UNCHANGED <<hop, hin, hidx, notHVars>>

\* lines 246-269: url.Parse, then os.Open or http.Get with its defer, and
\* the status check
DlSource ==
    /\ hop = "download" /\ hpc = "source"
    /\ LET uri == hin.uri
           o == hin.o
           ret(e) == /\ herr' = e /\ hpc' = "return"
           open(h) == /\ hopen' = hopen \cup {h}
                      /\ hdefer' = Append(hdefer, h)
       IN  IF ~Parsable(uri)
           THEN ret("parse") /\ UNCHANGED <<hopen, hdefer>>
           ELSE IF Scheme(uri) = "file"
           THEN IF o.net = "fail"
                THEN ret("open") /\ UNCHANGED <<hopen, hdefer>>
                ELSE open(Handle("source", 0)) /\ hpc' = "copy" /\ UNCHANGED herr
           ELSE IF o.net = "fail"
                THEN ret("get") /\ UNCHANGED <<hopen, hdefer>>
                ELSE /\ open(Handle("response.Body", 0))
                     /\ IF o.status < 200 \/ o.status > 299
                        THEN ret("status")
                        ELSE hpc' = "copy" /\ UNCHANGED herr
    /\ UNCHANGED <<hop, hin, hidx, notHVars>>

\* lines 272-274: io.Copy and return
DlCopy ==
    /\ hop = "download" /\ hpc = "copy"
    /\ herr' = (IF hin.o.copy = "ok" THEN NoErr ELSE "copy")
    /\ hpc' = "return"
    /\ UNCHANGED <<hop, hin, hidx, hopen, hdefer, notHVars>>

\* lines 277-291: ioutil.ReadFile opens and closes the file itself
ShaCheck ==
    /\ hop = "checksum" /\ hpc = "read"
    /\ herr' = CheckSha256([p \in {CachePath(UHttp)} |-> hin.content],
                           CachePath(UHttp), hin.sha)
    /\ hpc' = "return"
    /\ UNCHANGED <<hop, hin, hidx, hopen, hdefer, notHVars>>

\* lines 294-301: os.Create, defer newfile.Close()
ZipCreate ==
    /\ hop = "zip" /\ hpc = "create"
    /\ IF hin.failAt = 0
       THEN HFail("create") /\ UNCHANGED hidx
       ELSE /\ hopen' = hopen \cup {Handle("newfile", 0)}
            /\ hdefer' = Append(hdefer, Handle("newfile", 0))
            /\ hpc' = "add" /\ hidx' = 1 /\ UNCHANGED herr
    /\ UNCHANGED <<hop, hin, notHVars>>

\* lines 304-336, one iteration: os.Open, defer zipfile.Close(), the entry
ZipAdd ==
    /\ hop = "zip" /\ hpc = "add" /\ hidx <= Len(hin.files)
    /\ IF hin.failAt = hidx /\ hin.kind = "open"
       THEN HFail("open") /\ UNCHANGED hidx
       ELSE /\ hopen' = hopen \cup {Handle("zipfile", hidx)}
            /\ hdefer' = Append(hdefer, Handle("zipfile", hidx))
            /\ IF hin.failAt = hidx
               THEN herr' = hin.kind /\ hpc' = "return" /\ UNCHANGED hidx
               ELSE hidx' = hidx + 1 /\ UNCHANGED <<herr, hpc>>
    /\ UNCHANGED <<hop, hin, notHVars>>

\* line 337: return nil
ZipDone ==
    /\ hop = "zip" /\ hpc = "add" /\ hidx > Len(hin.files)
    /\ herr' = NoErr /\ hpc' = "return"
    /\ UNCHANGED <<hop, hin, hidx, hopen, hdefer, notHVars>>

\* lines 374-378: os.Open(src), defer src.Close()
CfOpenSrc ==
    /\ hop = "copyfile" /\ hpc = "src"
    /\ IF hin.fail = "open"
       THEN HFail("open")
       ELSE /\ hopen' = hopen \cup {Handle("src", 0)}
            /\ hdefer' = Append(hdefer, Handle("src", 0))
            /\ hpc' = "dest" /\ UNCHANGED herr
    /\ UNCHANGED <<hop, hin, hidx, notHVars>>

\* lines 380-388: MkdirAll, os.OpenFile(dest); fh is not deferred
CfOpenDest ==
    /\ hop = "copyfile" /\ hpc = "dest"
    /\ IF hin.fail \in {"mkdir", "openfile"}
       THEN HFail(hin.fail)
       ELSE /\ hopen' = hopen \cup {Handle("fh", 0)}
            /\ hpc' = "copy" /\ UNCHANGED <<herr, hdefer>>
    /\ UNCHANGED <<hop, hin, hidx, notHVars>>

\* lines 390-392: io.Copy, fh.Close(), return err
CfCopy ==
    /\ hop = "copyfile" /\ hpc = "copy"
    /\ herr' = (IF hin.fail = "copy" THEN "copy" ELSE NoErr)
    /\ hopen' = hopen \ {Handle("fh", 0)}
    /\ hpc' = "return"
    /\ UNCHANGED <<hop, hin, hidx, hdefer, notHVars>>

\* the function returns: the deferred closes run
HReturn ==
    /\ hpc = "return"
    /\ hopen' = hopen \ Range(hdefer)
    /\ hdefer' = <<>>
    /\ hpc' = "returned"
    /\ UNCHANGED <<hop, hin, hidx, herr, notHVars>>

NextHandles ==
    \/ HCall \/ DlCreate \/ DlSource \/ DlCopy \/ ShaCheck
    \/ ZipCreate \/ ZipAdd \/ ZipDone
    \/ CfOpenSrc \/ CfOpenDest \/ CfCopy \/ HReturn

SpecHandles == InitHandles /\ [][NextHandles]_vars

\* C14: when downloadFromURI, checkSha256, ZipFiles or the file branch of
\* copyDirectory's callback has returned, with or without an error, every
\* file handle and response body it opened is closed.
C14_HandlesClosed == hpc = "returned" => hopen = {}

\* downloadFromURI returned the error of a non-2xx status: the output file
\* and the response body had been opened
C14_Witness ==
    /\ hop = "download" /\ hpc = "returned" /\ herr = "status"
    /\ hopen = {}

----------------------------------------------------------------------------
(* SpecEnv: two Package runs of one process in their validateStack, each   *)
(* statement one step, over the process environment they share.            *)

Runs == {1, 2}

\* os.Getenv of a variable that is not set
Unset == ""

InitEnv ==
    /\ CopyIdle /\ PkgIdle /\ HandlesIdle /\ RaceIdle /\ ExtIdle
    /\ cache = [p \in CachePaths |-> Absent]
    /\ fdep = Dependency(UHttp, <<>>, <<>>) /\ calls = <<>>
    /\ env = Unset
    /\ vdoc \in Docs
    /\ vstk \in {f \in [Runs -> StackNames \cup {""}] : f[1] # f[2]}
    /\ vpc = [r \in Runs |-> "start"]
    /\ vk = [r \in Runs |-> 0]
    /\ vseen = [r \in Runs |-> <<>>]
    /\ verr = [r \in Runs |-> NoErr]

VsReturnErr(r, e) ==
    /\ verr' = [verr EXCEPT ![r] = e]
    /\ vpc' = [vpc EXCEPT ![r] = "returned"]

\* lines 88-101: the empty stack, NewManifest, hasStack; nothing is deferred
\* yet, so a return leaves the environment alone
VsStart ==
    \E r \in Runs : \E ioOk \in BOOLEAN :
        /\ vpc[r] = "start"
        /\ IF vstk[r] = "" THEN VsReturnErr(r, NoErr)
           ELSE IF ~ioOk \/ ~Decodable(vdoc) THEN VsReturnErr(r, "manifest")
           ELSE IF ~HasStack(vdoc.dependencies.items, vstk[r])
           THEN VsReturnErr(r, "stack not found")
           ELSE vpc' = [vpc EXCEPT ![r] = "setenv"] /\ UNCHANGED verr
        /\ UNCHANGED <<env, vdoc, vstk, vk, vseen, notEnvVars>>

\* lines 104-107: os.Setenv("CF_STACK", stack), defer os.Unsetenv
VsSetenv ==
    \E r \in Runs :
        /\ vpc[r] = "setenv"
        /\ env' = vstk[r]
        /\ vpc' = [vpc EXCEPT ![r] = "loop"]
        /\ vk' = [vk EXCEPT ![r] = 1]
        /\ UNCHANGED <<vdoc, vstk, vseen, verr, notEnvVars>>

\* lines 109-113, one iteration: manifest.DefaultVersion(d.Name) reads
\* CF_STACK from the environment
VsCheck ==
    \E r \in Runs :
        /\ vpc[r] = "loop" /\ vk[r] <= Len(vdoc.default_versions)
        /\ vseen' = [vseen EXCEPT ![r] = Append(@, env)]
        /\ IF DefaultVersion(vdoc.dependencies.items, vdoc.default_versions[vk[r]], env)
           THEN /\ vk' = [vk EXCEPT ![r] = @ + 1]
                /\ UNCHANGED <<vpc, verr>>
           ELSE /\ verr' = [verr EXCEPT ![r] = "no matching default"]
                /\ vpc' = [vpc EXCEPT ![r] = "return"]
                /\ UNCHANGED vk
        /\ UNCHANGED <<env, vdoc, vstk, notEnvVars>>

\* line 115: return nil
VsLoopEnd ==
    \E r \in Runs :
        /\ vpc[r] = "loop" /\ vk[r] > Len(vdoc.default_versions)
        /\ vpc' = [vpc EXCEPT ![r] = "return"]
        /\ UNCHANGED <<env, vdoc, vstk, vk, vseen, verr, notEnvVars>>

\* line 107 at the return: the deferred os.Unsetenv("CF_STACK")
VsReturn ==
    \E r \in Runs :
        /\ vpc[r] = "return"
        /\ env' = Unset
        /\ vpc' = [vpc EXCEPT ![r] = "returned"]
        /\ UNCHANGED <<vdoc, vstk, vk, vseen, verr, notEnvVars>>

NextEnv == VsStart \/ VsSetenv \/ VsCheck \/ VsLoopEnd \/ VsReturn

SpecEnv == InitEnv /\ [][NextEnv]_vars

\* C12: of two Package runs validating concurrently with different stacks,
\* each one's default-version checks read its own stack from CF_STACK,
\* neither overwritten nor cleared by the other run, and so each validation
\* returns what it returns when run alone.
C12_StackNeverLeaks ==
    \A r \in Runs :
        /\ \A i \in 1..Len(vseen[r]) : vseen[r][i] = vstk[r]
        /\ (vpc[r] = "returned" /\ verr[r] # "manifest")
             => verr[r] = ValidateStack(vstk[r], vdoc, TRUE)

----------------------------------------------------------------------------
(* SpecRace: two Package runs with cached = true fetching the same          *)
(* dependency into the same cache directory, each system call one step,     *)
(* and then reading the cache file into their archives.                     *)

\* the bytes a reader finds in the file
FileContent(f) ==
    IF ~f.exists THEN Absent
    ELSE IF f.chunk1 /\ f.chunk2 THEN GoodContent(UHttp)
    ELSE IF f.chunk1 THEN Partial
    ELSE IF f.chunk2 THEN "bad"             \* a hole, then the second chunk
    ELSE Empty

NotRead == "not read"

\* the length of the file, in chunks
Size(f) == IF f.chunk2 THEN 2 ELSE IF f.chunk1 THEN 1 ELSE 0

\* a reader's buffer: the size Stat reported when the file was opened, and
\* the chunks read since
Buffer(size, chunk1, chunk2) == [size |-> size, chunk1 |-> chunk1, chunk2 |-> chunk2]

NoBuffer == Buffer(0, FALSE, FALSE)

\* the bytes in a buffer
BufferContent(b) == FileContent(DiskFile(TRUE, b.chunk1, b.chunk2))

InitRace ==
    /\ CopyIdle /\ PkgIdle /\ HandlesIdle /\ EnvIdle /\ ExtIdle
    /\ cache = [p \in CachePaths |-> Absent]
    /\ fdep = Dependency(UHttp, EncodeToString(Sum256(GoodContent(UHttp))), <<"s1">>)
    /\ calls = <<>>
    /\ rfile \in {NoDiskFile, DiskFile(TRUE, TRUE, TRUE), DiskFile(TRUE, TRUE, FALSE)}
    /\ rpc = [r \in Runs |-> "stat"]
    /\ rerr = [r \in Runs |-> NoErr]
    /\ rbuf = [r \in Runs |-> NoBuffer]
    /\ rbytes = [r \in Runs |-> NotRead]

RGo(r, pos) == rpc' = [rpc EXCEPT ![r] = pos]

\* line 133: os.Stat of the cache path
RStat ==
    \E r \in Runs :
        /\ rpc[r] = "stat"
        /\ IF rfile.exists THEN RGo(r, "verify") ELSE RGo(r, "create")
        /\ UNCHANGED <<rfile, rerr, rbuf, rbytes, notRaceVars>>

\* line 240: os.Create makes the file or truncates the one that is there
RCreate ==
    \E r \in Runs :
        /\ rpc[r] = "create"
        /\ rfile' = DiskFile(TRUE, FALSE, FALSE)
        /\ RGo(r, "write1")
        /\ UNCHANGED <<rerr, rbuf, rbytes, notRaceVars>>

\* line 272, io.Copy: the first chunk, at this handle's offset 0
RWrite1 ==
    \E r \in Runs :
        /\ rpc[r] = "write1"
        /\ rfile' = [rfile EXCEPT !.chunk1 = TRUE]
        /\ RGo(r, "write2")
        /\ UNCHANGED <<rerr, rbuf, rbytes, notRaceVars>>

\* line 272, io.Copy: the second chunk, after the first, or the read from
\* the source fails and downloadFromURI returns the error
RWrite2 ==
    \E r \in Runs :
        /\ rpc[r] = "write2"
        /\ \/ /\ rfile' = [rfile EXCEPT !.chunk2 = TRUE]
              /\ RGo(r, "verify")
              /\ UNCHANGED rerr
           \/ /\ rerr' = [rerr EXCEPT ![r] = "copy"]
              /\ RGo(r, "failed")
              /\ UNCHANGED rfile
        /\ UNCHANGED <<rbuf, rbytes, notRaceVars>>

\* a handle is opened on the file and Stat reports its size: nothing read yet
ROpen(r, pos) ==
    /\ rbuf' = [rbuf EXCEPT ![r] = Buffer(Size(rfile), FALSE, FALSE)]
    /\ RGo(r, pos)

\* the read at offset 0: end of file when the file is empty now, else the
\* first chunk as it is now (zeros when only the second chunk was written)
RRead1(r, more, done) ==
    IF Size(rfile) = 0
    THEN RGo(r, done) /\ UNCHANGED rbuf
    ELSE /\ rbuf' = [rbuf EXCEPT ![r].chunk1 = rfile.chunk1]
         /\ RGo(r, more)

\* the read after the first chunk: the second chunk if the file has it now,
\* else end of file
RRead2(r, done) ==
    /\ rbuf' = [rbuf EXCEPT ![r].chunk2 = rfile.chunk2]
    /\ RGo(r, done)

\* line 278, ioutil.ReadFile: os.Open and Stat
RVerifyOpen ==
    \E r \in Runs :
        /\ rpc[r] = "verify"
        /\ ROpen(r, "verify read1")
        /\ UNCHANGED <<rfile, rerr, rbytes, notRaceVars>>

\* line 278, ioutil.ReadFile: the first read
RVerifyRead1 ==
    \E r \in Runs :
        /\ rpc[r] = "verify read1"
        /\ RRead1(r, "verify read2", "verify sum")
        /\ UNCHANGED <<rfile, rerr, rbytes, notRaceVars>>

\* line 278, ioutil.ReadFile: the next read, to the end of the file
RVerifyRead2 ==
    \E r \in Runs :
        /\ rpc[r] = "verify read2"
        /\ RRead2(r, "verify sum")
        /\ UNCHANGED <<rfile, rerr, rbytes, notRaceVars>>

\* lines 283-290 and 139-143: the digest of what was read against the
\* declared one, then return File
RVerifySum ==
    \E r \in Runs :
        /\ rpc[r] = "verify sum"
        /\ LET path == CachePath(fdep.URI)
               err == CheckSha256([p \in {path} |-> BufferContent(rbuf[r])], path,
                                  fdep.SHA256)
           IN  IF err # NoErr
               THEN rerr' = [rerr EXCEPT ![r] = err] /\ RGo(r, "failed")
               ELSE RGo(r, "fetched") /\ UNCHANGED rerr
        /\ UNCHANGED <<rfile, rbuf, rbytes, notRaceVars>>

\* lines 229, 306-330: ZipFiles opens the returned File's Path, Stats it
\* and creates the entry's header
RArchiveOpen ==
    \E r \in Runs :
        /\ rpc[r] = "fetched"
        /\ ROpen(r, "archive read1")
        /\ UNCHANGED <<rfile, rerr, rbytes, notRaceVars>>

\* line 332, io.Copy: the first read; at the end of the file the entry is
\* complete
RArchiveRead1 ==
    \E r \in Runs :
        /\ rpc[r] = "archive read1"
        /\ RRead1(r, "archive read2", "archived")
        /\ rbytes' = (IF Size(rfile) = 0
                      THEN [rbytes EXCEPT ![r] = BufferContent(rbuf[r])]
                      ELSE rbytes)
        /\ UNCHANGED <<rfile, rerr, notRaceVars>>

\* line 332, io.Copy: the next read, to the end of the file
RArchiveRead2 ==
    \E r \in Runs :
        /\ rpc[r] = "archive read2"
        /\ RRead2(r, "archived")
        /\ rbytes' = [rbytes EXCEPT ![r] = BufferContent(rbuf'[r])]
        /\ UNCHANGED <<rfile, rerr, notRaceVars>>

NextRace ==
    \/ RStat \/ RCreate \/ RWrite1 \/ RWrite2
    \/ RVerifyOpen \/ RVerifyRead1 \/ RVerifyRead2 \/ RVerifySum
    \/ RArchiveOpen \/ RArchiveRead1 \/ RArchiveRead2

SpecRace == InitRace /\ [][NextRace]_vars

\* C13: under every interleaving of two runs fetching the same dependency
\* into the same cache, the bytes a run's archive reads at the cache path of
\* a File it was returned are the content with the declared SHA256.
C13_ArchiveReadsVerifiedBytes ==
    \A r \in Runs :
        rbytes[r] # NotRead
            => EncodeToString(Sum256(rbytes[r])) = fdep.SHA256

----------------------------------------------------------------------------
(* SpecExtension: one run of CompileExtensionPackage(bpDir, version,        *)
(* cached), one action per step. The archive is built by the external       *)
(* packager; nothing of Package's filter, fetch or file list takes part.    *)

\* what `bundle exec buildpack-packager` may leave in dir under the expected
\* zip name: nothing, or an archive of its own making
ExternalArchives ==
    {NoArchive,
     [created |-> TRUE, directory |-> FALSE, entries |-> <<>>],
     [created |-> TRUE, directory |-> TRUE,
      entries |-> << [Name |-> <<"manifest.yml">>, bytes |-> "staged"] >>]}

InitExtension ==
    /\ CopyIdle /\ HandlesIdle /\ EnvIdle /\ RaceIdle /\ ExtIdle
    /\ fdep = Dependency(UHttp, <<>>, <<>>) /\ calls = <<>>
    /\ stack = ""
    /\ cached \in BOOLEAN
    /\ bpManifest \in Docs
    /\ cache \in InitialCaches
    /\ cache0 = cache
    /\ ppc = "ext start"
    /\ staging = NoStaging /\ manifest = <<>> /\ m = NoDoc
    /\ deps = <<>> /\ idx = 0 /\ dependenciesForStack = <<>> /\ files = <<>>
    /\ archive = NoArchive /\ zipErr = NoErr /\ perr = NoErr
    /\ steps = <<>> /\ failed = "none" /\ fetched = <<>>

\* what no step of CompileExtensionPackage touches
extFrame == <<cache, fetchVars, copyVars, pkgIn, pkgLoc, zipErr, fetched,
              hVars, envVars, raceVars>>

\* lines 30-37: filepath.Abs and copyDirectory(bpDir)
ExtStage ==
    /\ ppc = "ext start"
    /\ steps' = Append(steps, "stage")
    /\ \/ /\ staging' = [exists |-> TRUE, manifest |-> bpManifest, version |-> FALSE]
          /\ Go("ext staged")
       \/ /\ staging' = [exists |-> TRUE, manifest |-> NoDoc, version |-> FALSE]
          /\ Fail("stage", "io")
       \/ /\ UNCHANGED staging
          /\ Fail("stage", "abs")
    /\ UNCHANGED <<archive, ezip, extFrame>>

\* lines 39-42: the VERSION file
ExtVersion ==
    /\ ppc = "ext staged"
    /\ steps' = Append(steps, "version")
    /\ \/ /\ staging' = [staging EXCEPT !.version = TRUE]
          /\ Go("ext versioned")
       \/ /\ UNCHANGED staging
          /\ Fail("version", "io")
    /\ UNCHANGED <<archive, ezip, extFrame>>

\* lines 44-55: bundle exec buildpack-packager --cached|--uncached, in dir
ExtBundle ==
    /\ ppc = "ext versioned"
    /\ steps' = Append(steps, "bundle")
    /\ \E z \in ExternalArchives :
         /\ ezip' = z
         /\ \/ Go("ext bundled")
            \/ Fail("bundle", "exit status")
    /\ UNCHANGED <<staging, archive, extFrame>>

\* lines 57-63: the language, loaded from bpDir/manifest.yml
ExtLoad ==
    /\ ppc = "ext bundled"
    /\ steps' = Append(steps, "read")
    /\ \/ Go("ext loaded")
       \/ Fail("read", "load")
    /\ UNCHANGED <<staging, archive, ezip, extFrame>>

\* lines 65-73: libbuildpack.CopyFile(dir/zipFile, bpDir/zipFile)
ExtCopy ==
    /\ ppc = "ext loaded"
    /\ steps' = Append(steps, "copy")
    /\ IF ~ezip.created
       THEN Fail("copy", "open") /\ UNCHANGED archive
       ELSE \/ /\ archive' = ezip
               /\ ppc' = "returned" /\ UNCHANGED <<perr, failed>>
            \/ Fail("copy", "io") /\ UNCHANGED archive
    /\ UNCHANGED <<staging, ezip, extFrame>>

NextExtension == ExtStage \/ ExtVersion \/ ExtBundle \/ ExtLoad \/ ExtCopy

SpecExtension == InitExtension /\ [][NextExtension]_vars

====
